---- MODULE Spec2Model ----
\* A state-machine model of imageprocessing.go: the image store (openImage,
\* saveImage), the region extractor (crop) and the orchestrator (main).
\*
\* The third-party collaborators (smartcrop, bild, primitive) and the standard
\* library (os, image, image/jpeg) are modelled at their call sites:
\*   - a file is a record (exists, readable, writable, data); a JPEG's data keeps
\*     its colour model, width, height, quality and the lineage of its pixels;
\*   - an image is a window (rect, off, stride) onto a pixel buffer (buf); reading
\*     a pixel yields the storage cell it is read from, so two reads agree exactly
\*     when they hit the same cell of the same buffer;
\*   - the region detector is opaque: it fails or yields any rectangle;
\*   - an effect yields a fresh buffer whose lineage is its input's lineage
\*     extended by the effect's name.
EXTENDS Integers, Sequences, FiniteSets, TLC

VARIABLES
    pc,         \* main: the statement about to run, or "done" / "fatal" / "panic"
    fs,         \* the working directory: file name -> file
    dirW,       \* whether the working directory is writable
    img,        \* main's variable img
    sat,        \* main's variable sat
    mult,       \* main's variable mult
    shrp,       \* main's variable shrp
    pri,        \* main's variable pri
    err,        \* main's variable err
    nbuf,       \* number of pixel buffers allocated so far
    trace,      \* history: the steps main has executed, in order
    calls,      \* history: one record per openImage / saveImage call of main
    inputOf,    \* history: stage name -> the image the stage was applied to
    fs0,        \* history: the working directory when main started
    cpc,        \* crop called on its own: "call" or "ret"
    cIn,        \* crop called on its own: the image argument
    cW,         \* crop called on its own: the width argument
    cH,         \* crop called on its own: the height argument
    cDet,       \* crop called on its own: what the region detector answered
    cOut        \* crop called on its own: the returned pair (img, err)

mainVars == <<pc, fs, dirW, img, sat, mult, shrp, pri, err, nbuf, trace, calls, inputOf, fs0>>
cropVars == <<cpc, cIn, cW, cH, cDet, cOut>>
vars == <<pc, fs, dirW, img, sat, mult, shrp, pri, err, nbuf, trace, calls, inputOf, fs0,
          cpc, cIn, cW, cH, cDet, cOut>>

--------------------------------------------------------------------------------
\* Bounds of the model.

\* Largest width and height of the JPEG stored in original.jpg.
MaxDim == 2
\* Largest coordinate of a rectangle (region detector answers, image bounds).
MaxCoord == 3

--------------------------------------------------------------------------------
\* Program constants.

\* jpeg.Options{Quality: 85}
Quality == 85
\* crop(img, 1000, 1000)
CropWidth == 1000
CropHeight == 1000
\* transform.Resize(img, 256, 256, transform.Linear)
ResizeDim == 256
\* primitive.NewModel(img, bg, 1024, runtime.NumCPU())
OutputSize == 1024

--------------------------------------------------------------------------------
\* image.Rectangle

Rect(x0, y0, x1, y1) == [x0 |-> x0, y0 |-> y0, x1 |-> x1, y1 |-> y1]
ZR == Rect(0, 0, 0, 0)
Dx(r) == r.x1 - r.x0
Dy(r) == r.y1 - r.y0
Empty(r) == r.x0 >= r.x1 \/ r.y0 >= r.y1
PointIn(x, y, r) == r.x0 <= x /\ x < r.x1 /\ r.y0 <= y /\ y < r.y1
Max2(a, b) == IF a > b THEN a ELSE b
Min2(a, b) == IF a < b THEN a ELSE b
\* Rectangle.Intersect: the largest rectangle in both, the zero rectangle if none.
Intersect(r, s) ==
    LET q == Rect(Max2(r.x0, s.x0), Max2(r.y0, s.y0), Min2(r.x1, s.x1), Min2(r.y1, s.y1))
    IN  IF Empty(q) THEN ZR ELSE q
\* Rectangle.In: every point of r is a point of s.
RectIn(r, s) ==
    Empty(r) \/ (s.x0 <= r.x0 /\ r.x1 <= s.x1 /\ s.y0 <= r.y0 /\ r.y1 <= s.y1)
\* Rectangle.Eq: the same set of points; all empty rectangles are equal.
RectEq(r, s) == r = s \/ (Empty(r) /\ Empty(s))
\* The well-formed rectangles (Min <= Max on both axes) over the model's coordinates.
Rects ==
    { Rect(a, b, c, d) : <<a, b, c, d>> \in
        { t \in (0..MaxCoord) \X (0..MaxCoord) \X (0..MaxCoord) \X (0..MaxCoord) :
            t[1] <= t[3] /\ t[2] <= t[4] } }

--------------------------------------------------------------------------------
\* image.Image

\* The concrete types that have a SubImage method, and one that has none.
SubImagerKinds == {"Gray", "YCbCr", "RGBA"}
NilImage == [kind |-> "nil", rect |-> ZR, buf |-> 0, off |-> 0, stride |-> 0, prov |-> <<>>]
\* What a colour type's SubImage returns for an empty intersection (&Gray{}, ...):
\* a zero rectangle over no pixels.
EmptyImage(kind, prov) ==
    [kind |-> kind, rect |-> ZR, buf |-> 0, off |-> 0, stride |-> 0, prov |-> prov]
\* A freshly allocated image: its own buffer, rows packed.
NewImage(kind, r, b, prov) ==
    [kind |-> kind, rect |-> r, buf |-> b, off |-> 0, stride |-> Dx(r), prov |-> prov]
\* The colour every read outside an image's bounds yields.
ZeroColor == [buf |-> 0, idx |-> 0]
\* PixOffset: the index of pixel (x, y) in the image's window of its buffer.
PixOffset(m, x, y) == (y - m.rect.y0) * m.stride + (x - m.rect.x0)
\* At: the storage cell pixel (x, y) is read from.
At(m, x, y) ==
    IF PointIn(x, y, m.rect)
    THEN [buf |-> m.buf, idx |-> m.off + PixOffset(m, x, y)]
    ELSE ZeroColor

\* The type assertion img.(SubImager): whether the concrete type has SubImage.
IsSubImager(m) == m.kind \in SubImagerKinds
\* A SubImage that moves the window's bounds to the origin, as a copying crop would.
SubImageReorigined(m, r) ==
    LET q == Intersect(r, m.rect)
    IN  IF Empty(q)
        THEN EmptyImage(m.kind, Append(m.prov, "SubImage"))
        ELSE [m EXCEPT !.rect = Rect(0, 0, Dx(q), Dy(q)),
                       !.off = m.off + PixOffset(m, q.x0, q.y0),
                       !.prov = Append(m.prov, "SubImage")]
\* SubImage of the standard colour types: clip r to the bounds; an empty clip
\* yields the type's empty image, anything else a window onto the SAME buffer,
\* starting at the clipped rectangle's first pixel.
SubImage(m, r) ==
    LET q == Intersect(r, m.rect)
    IN  IF Empty(q)
        THEN EmptyImage(m.kind, Append(m.prov, "SubImage"))
        ELSE [m EXCEPT !.rect = q,
                       !.off = m.off + PixOffset(m, q.x0, q.y0),
                       !.prov = Append(m.prov, "SubImage")]

--------------------------------------------------------------------------------
\* Errors (github.com/pkg/errors)

NoCause == [type |-> "none", op |-> "", path |-> ""]
\* *os.PathError: names the failed system call and the file.
PathError(op, path) == [type |-> "PathError", op |-> op, path |-> path]
\* jpeg.FormatError, io.ErrUnexpectedEOF: name no file.
FormatError == [type |-> "FormatError", op |-> "", path |-> ""]
\* The region detector's own error.
DetectError == [type |-> "DetectError", op |-> "", path |-> ""]
NoErr == [msg |-> "", path |-> "", cause |-> NoCause]
\* errors.Wrap(cause, msg + path); path is "" where the code appends none.
Wrap(cause, msg, path) == [msg |-> msg, path |-> path, cause |-> cause]
\* errors.New(msg)
New(msg) == [msg |-> msg, path |-> "", cause |-> NoCause]

\* The phase a message names.
Phase(e) ==
    CASE e.msg = "Cannot open " -> "open"
      [] e.msg = "Decoding the image failed." -> "decode"
      [] e.msg = "Cannot create file: " -> "create"
      [] e.msg = "Failed to encode the image as JPEG" -> "encode"
      [] e.msg = "Smartcrop failed" -> "detection"
      [] e.msg = "crop(): img does not support SubImage()" -> "view"
      [] OTHER -> "none"
\* The error taxonomy.
ErrKind(e) ==
    CASE Phase(e) \in {"open", "create"} -> "IOFailure"
      [] Phase(e) = "decode" -> "DecodeFailure"
      [] Phase(e) = "encode" -> "EncodeFailure"
      [] Phase(e) = "detection" -> "DetectionFailure"
      [] Phase(e) = "view" -> "UnsupportedView"
      [] OTHER -> "none"
\* The file names an error value carries, in its message or in its cause.
ErrPaths(e) == {e.path, e.cause.path} \ {""}

--------------------------------------------------------------------------------
\* Files

Outputs == {"cropped.jpg", "saturated.jpg", "multiplied.jpg", "sharpened.jpg", "primitive.jpg"}
Files == {"original.jpg", "other.jpg"} \cup Outputs

NoData == [fmt |-> "none", cm |-> "", w |-> 0, h |-> 0, q |-> 0, prov |-> <<>>]
\* Bytes that are no JPEG.
Garbage == [NoData EXCEPT !.fmt = "garbage"]
\* A file of length zero (just created or truncated).
Truncated == [NoData EXCEPT !.fmt = "empty"]
\* The leading bytes of a JPEG whose writing stopped.
Partial == [NoData EXCEPT !.fmt = "partial"]
\* A directory: it opens, and every read of it fails.
Directory == [NoData EXCEPT !.fmt = "dir"]
Jpeg(cm, w, h, q, prov) == [fmt |-> "jpeg", cm |-> cm, w |-> w, h |-> h, q |-> q, prov |-> prov]

Absent == [exists |-> FALSE, r |-> FALSE, w |-> FALSE, data |-> NoData]
File(r, w, data) == [exists |-> TRUE, r |-> r, w |-> w, data |-> data]

\* path.Join(pname, fname): main only ever joins onto ".", which Join drops.
Join(pname, fname) == IF pname = "." THEN fname ELSE pname \o "/" \o fname

\* os.Open: the file must exist and be readable.
OsOpenOK(fsys, path) == fsys[path].exists /\ fsys[path].r
\* An os.Create that needed write permission on the directory in every case.
OsCreateOKDirectoryOnly(fsys, dw, path) == dw
\* os.Create (O_RDWR|O_CREATE|O_TRUNC, 0666): an existing file must be writable
\* and is truncated; a missing one is created if the directory is writable.
OsCreateOK(fsys, dw, path) ==
    IF fsys[path].exists
    THEN fsys[path].w /\ fsys[path].data.fmt # "dir"
    ELSE dw
OsCreate(fsys, path) ==
    IF fsys[path].exists
    THEN [fsys EXCEPT ![path].data = Truncated]
    ELSE [fsys EXCEPT ![path] = File(TRUE, TRUE, Truncated)]

\* A jpeg.Encode called with nil options: the package's default quality, 75.
JpegEncodeDefaultQuality(m, q) ==
    Jpeg(IF m.kind = "Gray" THEN "Gray" ELSE "YCbCr", Dx(m.rect), Dy(m.rect), 75,
         Append(m.prov, "jpeg.Encode"))
\* jpeg.Encode: a width x height raster of the pixels inside the image's
\* bounds; the bounds' origin is not stored. An *image.Gray is written with one
\* component, every other type with three.
JpegEncode(m, q) ==
    Jpeg(IF m.kind = "Gray" THEN "Gray" ELSE "YCbCr", Dx(m.rect), Dy(m.rect), q,
         Append(m.prov, "jpeg.Encode"))
\* jpeg.Decode of well-formed JPEG data into a fresh buffer b: the bounds
\* start at the origin.
JpegDecode(d, b) ==
    IF d.w = 0 \/ d.h = 0
    THEN EmptyImage(d.cm, Append(d.prov, "jpeg.Decode"))
    ELSE NewImage(d.cm, Rect(0, 0, d.w, d.h), b, Append(d.prov, "jpeg.Decode"))
\* Whether jpeg.Decode accepts the data; a JPEG of zero width or height is
\* accepted only by a lenient decoder.
Decodable(d, lenient) == d.fmt = "jpeg" /\ (lenient \/ (d.w > 0 /\ d.h > 0))

--------------------------------------------------------------------------------
\* The image store

\* An openImage that reports a failed open with the decode message.
openImageConfused(fsys, path, b, lenient) ==
    IF ~OsOpenOK(fsys, path) \/ ~Decodable(fsys[path].data, lenient)
    THEN [img |-> NilImage, err |-> Wrap(FormatError, "Decoding the image failed.", "")]
    ELSE [img |-> JpegDecode(fsys[path].data, b), err |-> NoErr]
\* An openImage that returns the os error as it is, without wrapping it.
openImageUnwrapped(fsys, path, b, lenient) ==
    IF ~OsOpenOK(fsys, path)
    THEN [img |-> NilImage, err |-> [msg |-> "", path |-> "", cause |-> PathError("open", path)]]
    ELSE IF ~Decodable(fsys[path].data, lenient)
    THEN [img |-> NilImage,
          err |-> Wrap(IF fsys[path].data.fmt = "dir" THEN PathError("read", path) ELSE FormatError,
                       "Decoding the image failed.", "")]
    ELSE [img |-> JpegDecode(fsys[path].data, b), err |-> NoErr]

\* openImage(path) -> [img, err]; b is the next free buffer.
openImage(fsys, path, b, lenient) ==
    IF ~OsOpenOK(fsys, path)
    THEN [img |-> NilImage, err |-> Wrap(PathError("open", path), "Cannot open ", path)]
    ELSE IF ~Decodable(fsys[path].data, lenient)
    THEN [img |-> NilImage,
          err |-> Wrap(IF fsys[path].data.fmt = "dir" THEN PathError("read", path) ELSE FormatError,
                       "Decoding the image failed.", "")]
    ELSE [img |-> JpegDecode(fsys[path].data, b), err |-> NoErr]

\* saveImage(img, pname, fname) -> [fs, err]; wok says whether every write of
\* the encoder succeeds.
saveImage(fsys, dw, m, pname, fname, wok) ==
    LET fpath == Join(pname, fname)
    IN  IF ~OsCreateOK(fsys, dw, fpath)
        THEN [fs |-> fsys,
              err |-> Wrap(PathError("open", fpath), "Cannot create file: ", fpath)]
        ELSE IF ~wok
        THEN [fs |-> [OsCreate(fsys, fpath) EXCEPT ![fpath].data = Partial],
              err |-> Wrap(PathError("write", fpath), "Failed to encode the image as JPEG", "")]
        ELSE [fs |-> [OsCreate(fsys, fpath) EXCEPT ![fpath].data = JpegEncode(m, Quality)],
              err |-> NoErr]

--------------------------------------------------------------------------------
\* The region extractor

\* smartcrop.Crop(img, width, height): every answer the detector may give.
DetectFail == [ok |-> FALSE, rect |-> ZR]
DetectOK(r) == [ok |-> TRUE, rect |-> r]
Detections == {DetectFail} \cup {DetectOK(r) : r \in Rects}

\* A crop that asserts the type without checking: an image without SubImage
\* comes back as it is.
cropUnchecked(m, width, height, det) ==
    IF ~det.ok
    THEN [img |-> NilImage, err |-> Wrap(DetectError, "Smartcrop failed", "")]
    ELSE IF ~IsSubImager(m)
    THEN [img |-> m, err |-> NoErr]
    ELSE [img |-> SubImage(m, det.rect), err |-> NoErr]
\* crop(img, width, height) -> [img, err], given the detector's answer det.
crop(m, width, height, det) ==
    IF ~det.ok
    THEN [img |-> NilImage, err |-> Wrap(DetectError, "Smartcrop failed", "")]
    ELSE IF ~IsSubImager(m)
    THEN [img |-> NilImage, err |-> New("crop(): img does not support SubImage()")]
    ELSE [img |-> SubImage(m, det.rect), err |-> NoErr]

--------------------------------------------------------------------------------
\* The effect pipeline

\* A bild effect: a new RGBA image of the input's bounds in a fresh buffer b.
Effect(name, m, b) ==
    IF Empty(m.rect)
    THEN EmptyImage("RGBA", Append(m.prov, name))
    ELSE NewImage("RGBA", m.rect, b, Append(m.prov, name))
saturate(m, b) == Effect("adjust.Saturation", m, b)
multiply(m, b) == Effect("blend.Multiply", m, b)
sharpen(m, b) == Effect("effect.UnsharpMask", m, b)
\* The seeds rand.Seed(time.Now().UTC().UnixNano()) may draw.
Seeds == {"t1", "t2"}
\* primitivePicture: resize to ResizeDim x ResizeDim (buffer b), then render the
\* model's canvas at OutputSize (buffer b + 1).
primitivePicture(m, b, seed) ==
    LET small == NewImage("RGBA", Rect(0, 0, ResizeDim, ResizeDim), b,
                          Append(m.prov, "transform.Resize"))
    IN  NewImage("RGBA", Rect(0, 0, OutputSize, OutputSize), b + 1,
                 small.prov \o <<"primitive", seed>>)

--------------------------------------------------------------------------------
\* The orchestrator

\* main's statements, in program order.
Steps ==
    << "load original", "crop", "save cropped", "reload cropped",
       "saturate", "save saturated", "multiply", "save multiplied",
       "sharpen", "save sharpened", "primitive", "save primitive" >>
StepIndex(step) == CHOOSE i \in 1..Len(Steps) : Steps[i] = step
\* A main whose saves come one stage late: the statement after the next.
AfterSkipping(step) ==
    IF StepIndex(step) + 2 > Len(Steps) THEN "done" ELSE Steps[StepIndex(step) + 2]
\* The statement that follows step when step did not fail.
After(step) ==
    IF StepIndex(step) = Len(Steps) THEN "done" ELSE Steps[StepIndex(step) + 1]
\* A main that logs the error and carries on.
AdvanceIgnoringError(step, e) ==
    /\ pc' = After(step)
    /\ trace' = Append(trace, step)
\* if err != nil { log.Fatal(err) }
Advance(step, e) ==
    /\ pc' = IF e # NoErr THEN "fatal" ELSE After(step)
    /\ trace' = Append(trace, step)
\* A panic inside a library call ends the run.
Panic(step) ==
    /\ pc' = "panic"
    /\ trace' = Append(trace, step)
    /\ UNCHANGED <<fs, dirW, img, sat, mult, shrp, pri, err, nbuf, calls, inputOf, fs0>>

OpenCall(path, r, before) ==
    [fn |-> "openImage", path |-> path, img |-> r.img, err |-> r.err,
     before |-> before, after |-> before]
SaveCall(path, m, r, before) ==
    [fn |-> "saveImage", path |-> path, img |-> m, err |-> r.err,
     before |-> before, after |-> r.fs]

\* img, err := openImage(path)
Load(step, path) ==
    /\ pc = step
    /\ \E lenient \in BOOLEAN :
         LET r == openImage(fs, path, nbuf + 1, lenient)
         IN  /\ img' = r.img
             /\ err' = r.err
             /\ nbuf' = IF r.img.buf = 0 THEN nbuf ELSE nbuf + 1
             /\ calls' = Append(calls, OpenCall(path, r, fs))
             /\ Advance(step, r.err)
    /\ UNCHANGED <<fs, dirW, sat, mult, shrp, pri, inputOf, fs0>>

\* err = saveImage(m, ".", fname)
Save(step, m, fname) ==
    /\ pc = step
    /\ \E wok \in BOOLEAN :
         LET r == saveImage(fs, dirW, m, ".", fname, wok)
         IN  /\ fs' = r.fs
             /\ err' = r.err
             /\ calls' = Append(calls, SaveCall(Join(".", fname), m, r, fs))
             /\ Advance(step, r.err)
    /\ UNCHANGED <<dirW, img, sat, mult, shrp, pri, nbuf, inputOf, fs0>>

LoadOriginal == Load("load original", "original.jpg") /\ UNCHANGED cropVars

\* img, err = crop(img, 1000, 1000)
Crop ==
    /\ pc = "crop"
    /\ \E det \in Detections :
         LET r == crop(img, CropWidth, CropHeight, det)
         IN  /\ img' = r.img
             /\ err' = r.err
             /\ Advance("crop", r.err)
    /\ inputOf' = [inputOf EXCEPT !["crop"] = img]
    /\ UNCHANGED <<fs, dirW, sat, mult, shrp, pri, nbuf, calls, fs0>>
    /\ UNCHANGED cropVars

SaveCropped == Save("save cropped", img, "cropped.jpg") /\ UNCHANGED cropVars

ReloadCropped == Load("reload cropped", "cropped.jpg") /\ UNCHANGED cropVars

\* sat := saturate(img)
Saturate ==
    /\ pc = "saturate"
    /\ \E crash \in BOOLEAN :
         IF crash /\ Empty(img.rect)
         THEN Panic("saturate")
         ELSE /\ sat' = saturate(img, nbuf + 1)
              /\ nbuf' = nbuf + 1
              /\ inputOf' = [inputOf EXCEPT !["saturate"] = img]
              /\ Advance("saturate", NoErr)
              /\ UNCHANGED <<fs, dirW, img, mult, shrp, pri, err, calls, fs0>>
    /\ UNCHANGED cropVars

SaveSaturated == Save("save saturated", sat, "saturated.jpg") /\ UNCHANGED cropVars

\* A main that multiplies the saturated image: mult := multiply(sat)
MultiplySaturated ==
    /\ pc = "multiply"
    /\ mult' = multiply(sat, nbuf + 1)
    /\ nbuf' = nbuf + 1
    /\ inputOf' = [inputOf EXCEPT !["multiply"] = sat]
    /\ Advance("multiply", NoErr)
    /\ UNCHANGED <<fs, dirW, img, sat, shrp, pri, err, calls, fs0>>
    /\ UNCHANGED cropVars
\* mult := multiply(img)
Multiply ==
    /\ pc = "multiply"
    /\ \E crash \in BOOLEAN :
         IF crash /\ Empty(img.rect)
         THEN Panic("multiply")
         ELSE /\ mult' = multiply(img, nbuf + 1)
              /\ nbuf' = nbuf + 1
              /\ inputOf' = [inputOf EXCEPT !["multiply"] = img]
              /\ Advance("multiply", NoErr)
              /\ UNCHANGED <<fs, dirW, img, sat, shrp, pri, err, calls, fs0>>
    /\ UNCHANGED cropVars

SaveMultiplied == Save("save multiplied", mult, "multiplied.jpg") /\ UNCHANGED cropVars

\* shrp := sharpen(sat)
Sharpen ==
    /\ pc = "sharpen"
    /\ \E crash \in BOOLEAN :
         IF crash /\ Empty(sat.rect)
         THEN Panic("sharpen")
         ELSE /\ shrp' = sharpen(sat, nbuf + 1)
              /\ nbuf' = nbuf + 1
              /\ inputOf' = [inputOf EXCEPT !["sharpen"] = sat]
              /\ Advance("sharpen", NoErr)
              /\ UNCHANGED <<fs, dirW, img, sat, mult, pri, err, calls, fs0>>
    /\ UNCHANGED cropVars

SaveSharpened == Save("save sharpened", shrp, "sharpened.jpg") /\ UNCHANGED cropVars

\* pri := primitivePicture(sat)
Primitive ==
    /\ pc = "primitive"
    /\ \E crash \in BOOLEAN, seed \in Seeds :
         IF crash /\ Empty(sat.rect)
         THEN Panic("primitive")
         ELSE /\ pri' = primitivePicture(sat, nbuf + 1, seed)
              /\ nbuf' = nbuf + 2
              /\ inputOf' = [inputOf EXCEPT !["primitive"] = sat]
              /\ Advance("primitive", NoErr)
              /\ UNCHANGED <<fs, dirW, img, sat, mult, shrp, err, calls, fs0>>
    /\ UNCHANGED cropVars

SavePrimitive == Save("save primitive", pri, "primitive.jpg") /\ UNCHANGED cropVars

--------------------------------------------------------------------------------
\* The states main may start in.

\* A photograph stored as a JPEG, with an unknown quality setting.
Photo(cm, w, h) == Jpeg(cm, w, h, 0, <<"photo">>)
\* What original.jpg may be: missing, unreadable, not a JPEG, or a photograph.
Originals ==
    {Absent, File(FALSE, TRUE, Photo("YCbCr", 1, 1)),
     File(TRUE, TRUE, Garbage), File(TRUE, TRUE, Truncated), File(TRUE, TRUE, Directory)}
    \cup {File(TRUE, TRUE, Photo(cm, w, h)) :
            cm \in {"Gray", "YCbCr"}, w \in 1..MaxDim, h \in 1..MaxDim}
\* An output left by an earlier run.
OldOutput == Jpeg("YCbCr", 1, 1, Quality, <<"old">>)
\* cropped.jpg may be left over with any permissions, the other outputs
\* readable and writable.
Leftovers(name) ==
    IF name = "cropped.jpg"
    THEN {Absent, File(TRUE, TRUE, OldOutput), File(TRUE, FALSE, OldOutput),
          File(FALSE, TRUE, OldOutput)}
    ELSE {Absent, File(TRUE, TRUE, OldOutput)}
Stages == {"crop", "saturate", "multiply", "sharpen", "primitive"}

InitMain ==
    /\ pc = "load original"
    /\ \E o \in Originals, c \in Leftovers("cropped.jpg"),
          olds \in SUBSET (Outputs \ {"cropped.jpg"}) :
         fs = [n \in Files |->
                 CASE n = "original.jpg" -> o
                   [] n = "other.jpg" -> File(TRUE, TRUE, Garbage)
                   [] n = "cropped.jpg" -> c
                   [] OTHER -> IF n \in olds THEN File(TRUE, TRUE, OldOutput) ELSE Absent]
    /\ dirW \in BOOLEAN
    /\ img = NilImage /\ sat = NilImage /\ mult = NilImage
    /\ shrp = NilImage /\ pri = NilImage
    /\ err = NoErr
    /\ nbuf = 0
    /\ trace = <<>>
    /\ calls = <<>>
    /\ inputOf = [s \in Stages |-> NilImage]
    /\ fs0 = fs
IdleCrop ==
    /\ cpc = "idle" /\ cIn = NilImage /\ cW = 0 /\ cH = 0
    /\ cDet = DetectFail /\ cOut = [img |-> NilImage, err |-> NoErr]

Init == InitMain /\ IdleCrop

Next ==
    \/ LoadOriginal
    \/ Crop
    \/ SaveCropped
    \/ ReloadCropped
    \/ Saturate
    \/ SaveSaturated
    \/ Multiply
    \/ SaveMultiplied
    \/ Sharpen
    \/ SaveSharpened
    \/ Primitive
    \/ SavePrimitive

Spec == Init /\ [][Next]_vars

--------------------------------------------------------------------------------
\* crop called on its own, on any image.

\* The images crop may be handed: of a type with or without SubImage, with any
\* non-empty bounds, packed or a window of a wider buffer, or empty.
CropInputs ==
    { [kind |-> k, rect |-> r, buf |-> 1, off |-> o, stride |-> Dx(r) + pad,
       prov |-> <<"input">>] :
        k \in {"Gray", "YCbCr", "Custom"}, r \in {q \in Rects : ~Empty(q)},
        o \in 0..1, pad \in 0..1 }
    \cup { EmptyImage(k, <<"input">>) : k \in {"Gray", "YCbCr", "Custom"} }

IdleMain ==
    /\ pc = "idle"
    /\ fs = [n \in Files |-> Absent]
    /\ dirW = FALSE
    /\ img = NilImage /\ sat = NilImage /\ mult = NilImage
    /\ shrp = NilImage /\ pri = NilImage
    /\ err = NoErr
    /\ nbuf = 0
    /\ trace = <<>>
    /\ calls = <<>>
    /\ inputOf = [s \in Stages |-> NilImage]
    /\ fs0 = fs

InitCrop ==
    /\ IdleMain
    /\ cpc = "call"
    /\ cIn \in CropInputs
    /\ \E wh \in {<<CropWidth, CropHeight>>, <<1, 1>>} : cW = wh[1] /\ cH = wh[2]
    /\ cDet = DetectFail
    /\ cOut = [img |-> NilImage, err |-> NoErr]

\* subImg, err := crop(cIn, cW, cH)
CallCrop ==
    /\ cpc = "call"
    /\ \E det \in Detections :
         /\ cDet' = det
         /\ cOut' = crop(cIn, cW, cH, det)
    /\ cpc' = "ret"
    /\ UNCHANGED <<cIn, cW, cH>>
    /\ UNCHANGED mainVars

NextCrop == CallCrop

SpecCrop == InitCrop /\ [][NextCrop]_vars

--------------------------------------------------------------------------------
\* Claims about crop (under SpecCrop).

\* The coordinates at which pixel reads are compared: every point of every
\* rectangle of the model.
Coords == 0..MaxCoord

\* C3 (as amended): crop on an image whose type has no SubImage always fails and
\* returns no image; the error is the unsupported-view error when the region
\* detector answered with a rectangle, and the wrapped detection failure when
\* the detector failed, because detection runs before the capability check.
\* crop never returns an image together with an error.
C3_UnsupportedViewAfterDetection ==
    cpc = "ret" =>
        /\ cOut.err # NoErr => cOut.img = NilImage
        /\ ~IsSubImager(cIn) =>
              /\ cOut.img = NilImage
              /\ cOut.err # NoErr
              /\ cDet.ok => ErrKind(cOut.err) = "UnsupportedView" /\ cOut.err.cause = NoCause
              /\ ~cDet.ok => ErrKind(cOut.err) = "DetectionFailure"
\* C3 witness: crop returned the unsupported-view error for an image without SubImage.
C3_Witness ==
    /\ cpc = "ret" /\ ~IsSubImager(cIn) /\ cDet.ok
    /\ ErrKind(cOut.err) = "UnsupportedView" /\ cOut.img = NilImage
\* C3 (as claimed): crop on an image without SubImage fails with UnsupportedView.
C3_Original ==
    (cpc = "ret" /\ ~IsSubImager(cIn)) =>
        (ErrKind(cOut.err) = "UnsupportedView" /\ cOut.img = NilImage)

C10_DegenerateRejected ==
    (cpc = "ret" /\ cDet.ok /\ Empty(cDet.rect)) =>
        (cOut.err # NoErr /\ cOut.img = NilImage)

--------------------------------------------------------------------------------
\* Claims about main and the image store (under Spec).

OpenCalls == {i \in 1..Len(calls) : calls[i].fn = "openImage"}
SaveCalls == {i \in 1..Len(calls) : calls[i].fn = "saveImage"}
StepNames == {Steps[i] : i \in 1..Len(Steps)}
\* The steps of main that return an error.
FallibleSteps ==
    {"load original", "crop", "save cropped", "reload cropped", "save saturated",
     "save multiplied", "save sharpened", "save primitive"}

\* C1: the steps main executes are, in order, an initial part of the fixed
\* sequence: none skipped, repeated or reordered; the statement about to run is
\* the one after the last executed; a completed run executed all twelve; and
\* cropped.jpg is opened for reading only after it was saved successfully.
C1_StepsInFixedOrder ==
    /\ Len(trace) <= Len(Steps)
    /\ \A i \in 1..Len(trace) : trace[i] = Steps[i]
    /\ pc \in StepNames => pc = Steps[Len(trace) + 1]
    /\ pc = "done" => trace = Steps
    /\ \A i \in OpenCalls : calls[i].path = "cropped.jpg" =>
          \E j \in SaveCalls : j < i /\ calls[j].path = "cropped.jpg" /\ calls[j].err = NoErr
\* C1 witness: a run that executed every step.
C1_Witness == pc = "done" /\ Len(trace) = Len(Steps) /\ Len(calls) = 7

\* C2: an error at any fallible step ends the run there: the run is fatal exactly
\* when err is set, the failed step is the last one executed and its error is
\* main's err, nothing can run afterwards, no step ran twice, and every file a
\* successful save wrote still holds what that save wrote.
C2_FailFastNoRollback ==
    /\ (err # NoErr) <=> (pc = "fatal")
    /\ pc = "fatal" =>
          /\ ~ENABLED Next
          /\ trace[Len(trace)] \in FallibleSteps
    /\ \A i \in 1..Len(calls) : calls[i].err # NoErr =>
          i = Len(calls) /\ pc = "fatal" /\ err = calls[i].err
    /\ \A i \in 1..Len(trace), j \in 1..Len(trace) : i # j => trace[i] # trace[j]
    /\ \A i \in SaveCalls : calls[i].err = NoErr =>
          /\ fs[calls[i].path] = calls[i].after[calls[i].path]
          /\ fs[calls[i].path].exists
          /\ fs[calls[i].path].data = JpegEncode(calls[i].img, Quality)
\* C2 witness: the run died saving saturated.jpg, after cropped.jpg was written.
C2_Witness ==
    /\ pc = "fatal" /\ Len(trace) = 6 /\ trace[6] = "save saturated"
    /\ calls[1].err = NoErr /\ calls[2].err = NoErr /\ calls[4].err # NoErr
    /\ fs["cropped.jpg"].data.fmt = "jpeg" /\ fs["cropped.jpg"] # fs0["cropped.jpg"]

\* C5: every openImage call ends in exactly one of three ways, told apart by the
\* error: an image and no error when the file opens and holds a JPEG; no image
\* and the open failure naming the path when the file is missing or unreadable;
\* no image and the decode failure when the file opens and holds no JPEG.
C5_LoadOutcomes ==
    \A i \in OpenCalls :
        LET c == calls[i]
            f == c.before[c.path]
        IN  /\ c.err # NoErr => c.img = NilImage
            /\ c.err = NoErr => c.img # NilImage
            /\ ErrKind(c.err) \in {"none", "IOFailure", "DecodeFailure"}
            /\ (ErrKind(c.err) = "none") <=> (c.err = NoErr)
            /\ ~f.exists => ErrKind(c.err) = "IOFailure"
            /\ (ErrKind(c.err) = "IOFailure") <=> ~(f.exists /\ f.r)
            /\ (f.exists /\ f.r /\ f.data.fmt # "jpeg") => ErrKind(c.err) = "DecodeFailure"
            /\ ErrKind(c.err) = "DecodeFailure" =>
                  (f.exists /\ f.r /\ (f.data.fmt # "jpeg" \/ f.data.w = 0 \/ f.data.h = 0))
            /\ (f.exists /\ f.r /\ f.data.fmt = "jpeg" /\ f.data.w > 0 /\ f.data.h > 0) =>
                  /\ c.err = NoErr
                  /\ c.img.rect = Rect(0, 0, f.data.w, f.data.h)
\* C5 witness: openImage on a path that does not exist.
C5_Witness ==
    /\ Len(calls) = 1 /\ calls[1].fn = "openImage"
    /\ ~calls[1].before["original.jpg"].exists
    /\ ErrKind(calls[1].err) = "IOFailure" /\ calls[1].img = NilImage

LastStep == trace[Len(trace)]
\* The steps that are calls of openImage or saveImage.
FileSteps == FallibleSteps \ {"crop"}

\* C7 (as amended): every error of openImage, saveImage and of crop's detection
\* is a wrap whose message names the failed phase, and it is main's err as
\* returned. The path is part of the message for open and create failures
\* only; an encode failure names the file only through its cause (the failed
\* write); a decode failure of undecodable bytes names no file at all; a
\* detection failure names none.
C7_ErrorsNamePhase ==
    /\ \A i \in 1..Len(calls) :
          LET c == calls[i]
              e == c.err
          IN  e # NoErr =>
                /\ e.cause # NoCause
                /\ Phase(e) \in (IF c.fn = "openImage" THEN {"open", "decode"}
                                                        ELSE {"create", "encode"})
                /\ Phase(e) \in {"open", "create"} =>
                      (e.path = c.path /\ e.cause = PathError("open", c.path))
                /\ Phase(e) = "encode" =>
                      (e.path = "" /\ e.cause = PathError("write", c.path))
                /\ Phase(e) = "decode" =>
                      /\ e.path = ""
                      /\ c.before[c.path].data.fmt # "dir" => ErrPaths(e) = {}
    /\ (pc = "fatal" /\ LastStep \in FileSteps) => err = calls[Len(calls)].err
    /\ (pc = "fatal" /\ LastStep = "crop") =>
          (Phase(err) = "detection" /\ err.cause = DetectError /\ ErrPaths(err) = {})
\* C7 witness: main died on a decode failure whose error names no file.
C7_Witness ==
    /\ pc = "fatal" /\ LastStep = "load original"
    /\ Phase(err) = "decode" /\ ErrPaths(err) = {}
    /\ err = calls[1].err
\* C7 (as claimed): the error main sees carries the phase and, for a file
\* operation, the path involved.
C7_Original ==
    pc = "fatal" =>
        /\ Phase(err) # "none"
        /\ LastStep \in FileSteps => calls[Len(calls)].path \in ErrPaths(err)

\* The files main opened for reading, and those it saved.
ReadPaths == {calls[i].path : i \in OpenCalls}
SavedPaths == {calls[i].path : i \in SaveCalls}

\* C8 (as amended): a run that completes without error reads one input file,
\* original.jpg (and reads back cropped.jpg, which it wrote itself), and writes
\* five output files, all into the working directory, each a JPEG of quality
\* 85; no other file is created or modified, at any point of any run.
C8_OneInputFiveOutputs ==
    /\ \A n \in Files \ Outputs : fs[n] = fs0[n]
    /\ SavedPaths \subseteq Outputs
    /\ pc = "done" =>
          /\ ReadPaths \ SavedPaths = {"original.jpg"}
          /\ ReadPaths \cap SavedPaths = {"cropped.jpg"}
          /\ SavedPaths = Outputs
          /\ Cardinality(SaveCalls) = 5
          /\ \A n \in Outputs :
                /\ fs[n].exists
                /\ fs[n].data.fmt = "jpeg"
                /\ fs[n].data.q = Quality
                /\ fs[n].data.prov # OldOutput.prov
\* C8 witness: a completed run over a directory holding leftovers of all outputs.
C8_Witness ==
    /\ pc = "done"
    /\ \A n \in Outputs : fs0[n].exists /\ fs[n] # fs0[n]
\* C8 (as claimed): a completed run reads one input file and writes four
\* output files.
C8_Original ==
    pc = "done" =>
        /\ Cardinality(ReadPaths \ SavedPaths) = 1
        /\ Cardinality(SavedPaths) = 4

\* C9: saturate and multiply are applied to the image decoded from the saved
\* cropped.jpg (a buffer of its own: not the sub-view, not the original's
\* buffer, not the saturated image); sharpen and primitive are applied to the
\* output of saturate; every save is handed the output of the stage its file
\* is named after, and the file holds the encoding of that image.
C9_DataWiring ==
    LET reloaded == calls[3].img
        subview == calls[2].img
    IN  /\ inputOf["saturate"] # NilImage =>
              /\ inputOf["saturate"] = reloaded
              /\ calls[3].fn = "openImage" /\ calls[3].path = "cropped.jpg"
              /\ reloaded.prov = subview.prov \o <<"jpeg.Encode", "jpeg.Decode">>
              /\ reloaded # subview
              /\ reloaded.buf # 0 => reloaded.buf \notin {subview.buf, inputOf["crop"].buf}
              /\ sat = saturate(reloaded, sat.buf)
        /\ inputOf["multiply"] # NilImage =>
              /\ inputOf["multiply"] = reloaded
              /\ inputOf["multiply"] # sat
              /\ mult = multiply(reloaded, mult.buf)
        /\ inputOf["sharpen"] # NilImage =>
              /\ inputOf["sharpen"] = sat
              /\ shrp = sharpen(sat, shrp.buf)
        /\ inputOf["primitive"] # NilImage =>
              /\ inputOf["primitive"] = sat
              /\ \E seed \in Seeds : pri = primitivePicture(sat, pri.buf - 1, seed)
        /\ \A i \in SaveCalls :
              /\ calls[i].img =
                    CASE calls[i].path = "cropped.jpg" -> SubImage(inputOf["crop"], subview.rect)
                      [] calls[i].path = "saturated.jpg" -> sat
                      [] calls[i].path = "multiplied.jpg" -> mult
                      [] calls[i].path = "sharpened.jpg" -> shrp
                      [] calls[i].path = "primitive.jpg" -> pri
              /\ calls[i].err = NoErr =>
                    fs[calls[i].path].data.prov = Append(calls[i].img.prov, "jpeg.Encode")
\* C9 witness: a completed run on a non-empty crop.
C9_Witness ==
    /\ pc = "done" /\ sat.buf # 0 /\ mult.buf # 0 /\ shrp.buf # 0
    /\ Dx(sat.rect) = 2 /\ Dy(sat.rect) = 1
====
